---- MODULE Spec2Model ----
(***************************************************************************)
(* Protected properties for JavaScript classes (protected-js).             *)
(*                                                                         *)
(* A root class owns one GuardedState object per instance and a Set of     *)
(* pending subscriber callbacks.  Every derived class declares its own     *)
(* private #guarded field, registers a callback (g) => this.#guarded ||= g *)
(* through _subGuarded(subs) and calls _getGuarded() after super().        *)
(*                                                                         *)
(* JavaScript values are encoded as integers: 0 is undefined, a positive   *)
(* number is the identity of a heap object.                                *)
(***************************************************************************)
EXTENDS Integers, Sequences, FiniteSets, TLC

MaxInst    == 2   \* instances constructed through the mechanism
MaxDepth   == 2   \* derived levels below the root class
MaxExtObjs == 1   \* objects the outside code made itself ({}-literals)

Undefined == 0

Inst   == 1..MaxInst
Level  == 0..MaxDepth
ExtObj == 1..MaxExtObjs
MaxObjs == MaxExtObjs + MaxInst
Obj    == 1..MaxObjs

\* A value that was never constructed through the mechanism (a plain object).
NotAnInstance == MaxInst + 1

(***************************************************************************)
(* The class hierarchy.  A class is the path from the root class to it:    *)
(* <<>> is the root (Base / A), <<1>> a class extending it (Sub, B, A of   *)
(* the branch test), <<1, 1>> and <<1, 2>> two sibling classes extending   *)
(* <<1>> (SubSub / C / B1 and B2), and so on: every class on the main      *)
(* chain has one sibling.                                                  *)
(***************************************************************************)
Sibling == {1, 2}
Root == << >>

RECURSIVE ClassesOfDepth(_)
ClassesOfDepth(d) ==
    IF d = 0 THEN {Root}
    ELSE {Append(p, s) : p \in {q \in ClassesOfDepth(d - 1) :
                                   \A j \in 1..Len(q) : q[j] = 1},
                         s \in Sibling}

Class == UNION {ClassesOfDepth(d) : d \in Level}

Parent(c) == SubSeq(c, 1, Len(c) - 1)

\* The class at level k on the path from the root to c.
Ancestor(c, k) == SubSeq(c, 1, k)

\* c is T or a (transitive) sub-class of T: "class c extends ... extends T".
Extends(c, T) == Len(T) <= Len(c) /\ Ancestor(c, Len(T)) = T

Range(s) == {s[n] : n \in 1..Len(s)}

\* A misbehaving subscriber: a class extending the root whose _subGuarded
\* adds, after delegating, a closure that raises whenever it is invoked,
\* and whose constructor calls super() and this._getGuarded() and does not
\* use a slot; and the classes extending it in the standard way.
Faulty == <<3>>
FaultyChain == {Faulty \o [j \in 1..n |-> 1] : n \in 0..(MaxDepth - 1)}
AnyClass == Class \cup FaultyChain

\* The closure level k of class c subscribes with raises on every call.
Raises(c, k) == k \in 1..Len(c) /\ Ancestor(c, k) = Faulty

\* A class extending the root in the standard way except that its
\* constructor calls super() only (no this._getGuarded(), no write through
\* its slot); and the classes extending it in the standard way.
Lazy == <<4>>
LazyChain == {Lazy \o [j \in 1..n |-> 1] : n \in 0..(MaxDepth - 1)}

\* The constructor of level k of class c does not call _getGuarded().
Omits(c, k) == k \in 1..Len(c) /\ Ancestor(c, k) = Lazy

\* Every derived level of c subscribes with the standard closure and calls
\* this._getGuarded() after super().
Regular(c) == \A k \in 1..Len(c) : ~Raises(c, k) /\ ~Omits(c, k)

\* Every derived level of c subscribes with the standard closure.
Standard(c) == \A k \in 1..Len(c) : ~Raises(c, k)

VARIABLES
    type,        \* type[i]: the class instance i was constructed as
    pc,          \* pc[i]: "none", "super" (a derived constructor's super()
                 \*   has just returned), "dist" (it has called
                 \*   _getGuarded()), "done", "failed" (constructor threw)
    installed,   \* installed[i]: levels 0..installed[i] have their private
                 \*   fields on the instance (a level's fields are installed
                 \*   when its super() returns)
    slot,        \* slot[i][k]: level k's private #guarded of instance i
    guardedSubs, \* guardedSubs[i]: the root's #guardedSubs, insertion order
    guardedMap,  \* the module-level WeakMap <instance, GuardedState>
    contents,    \* contents[o]: the properties of heap object o
    nextObj,     \* the identity the next object literal gets
    extKnown,    \* GuardedState objects handed to code outside the hierarchy
    hist,        \* hist[i]: what the _getGuarded() calls on i did so far:
                 \*   raised, the level of the callback that raised in the
                 \*   latest call (0: none), and served, the levels of the
                 \*   callbacks that have completed
    ret          \* the last operation and what it returned

vars == <<type, pc, installed, slot, guardedSubs, guardedMap, contents,
          nextObj, extKnown, hist, ret>>

progState == <<type, pc, installed, slot, guardedSubs, guardedMap, contents,
               nextObj, extKnown, hist>>

\* pre, calls and prev are filled by _getGuarded() only: the levels of the
\* callbacks pending when it was called, those of the callbacks it invoked,
\* in order, and hist of the instance when it was called.
R(op, i, arg, other, cls, outcome, value) ==
    [op |-> op, inst |-> i, arg |-> arg, other |-> other, cls |-> cls,
     outcome |-> outcome, value |-> value, pre |-> << >>, calls |-> << >>,
     prev |-> [raised |-> 0, served |-> {}]]

Constructing == \E i \in Inst : pc[i] \in {"super", "dist"}

\* No call is in progress: JavaScript runs one call at a time, to completion.
Idle == ret.op = "idle" /\ ~Constructing
Done(i) == i \in Inst /\ pc[i] = "done"

\* Values the outside code can pass: undefined, its own objects, and
\* whatever object a call has returned to it.
ExtArgs == {Undefined} \cup ExtObj \cup extKnown

\* The levels of instance i that hold a slot: the root and every level
\* that subscribes with the standard closure.
LevelsOf(i) == {k \in 0..Len(type[i]) : ~Raises(type[i], k)}

Learn(v) == IF v \in Obj \ ExtObj THEN extKnown \cup {v} ELSE extKnown

(***************************************************************************)
(* Pure helpers translated from the methods.                               *)
(***************************************************************************)

\* Faulty variant: one object shared by every instance (a static field).
SharedGuarded(n) == MaxExtObjs + 1

\* const guarded = this.#guarded = { }: a new object, distinct from every
\* object allocated before (n is the next unused identity).
NewGuarded(n) == n

\* Set.prototype.add: append unless already a member.
SetAdd(s, e) == IF e \in Range(s) THEN s ELSE Append(s, e)

\* Set.prototype.delete of the entry at position n.
SetDeleteAt(s, n) == SubSeq(s, 1, n - 1) \o SubSeq(s, n + 1, Len(s))

\* The closure (g) => this.#guarded ||= g made by level k of instance i.
Callback(i, k) == [inst |-> i, lvl |-> k]

\* Faulty variant: every override adds its closure before delegating.
RECURSIVE SubGuardedLeafFirst(_, _, _)
SubGuardedLeafFirst(i, c, subs) ==
    IF c = Root THEN subs
    ELSE SubGuardedLeafFirst(i, Parent(c), SetAdd(subs, Callback(i, Len(c))))

\* Faulty variant: an override that does not delegate to super.
SubGuardedNoSuper(i, c, subs) ==
    IF c = Root THEN subs ELSE SetAdd(subs, Callback(i, Len(c)))

\* _subGuarded(subs) of class c, called on instance i: the root's is a
\* stub, every override delegates to super first and then adds its closure.
RECURSIVE SubGuarded(_, _, _)
SubGuarded(i, c, subs) ==
    IF c = Root THEN subs
    ELSE SetAdd(SubGuarded(i, Parent(c), subs), Callback(i, Len(c)))

\* Faulty variant: this.#guarded = g, assigning unconditionally.
InvokeAlwaysAssign(cb, s, inst, g) ==
    IF Raises(type[cb.inst], cb.lvl) \/ cb.lvl > inst[cb.inst]
    THEN [threw |-> TRUE, slot |-> s, value |-> Undefined]
    ELSE [threw |-> FALSE, slot |-> [s EXCEPT ![cb.inst][cb.lvl] = g],
          value |-> g]

\* _subGuarded(subs) of class c in the once-only variant, called on
\* instance i whose levels 0..inst[i] have their private fields:
\*   if (this.#guarded) return; super._subGuarded(subs); subs.add(...)
\* Reading this.#guarded is a TypeError while the level's private field is
\* not on the instance; threw tells whether the call ended that way.
RECURSIVE SubGuardedOnce(_, _, _, _, _)
SubGuardedOnce(i, c, subs, s, inst) ==
    IF c = Root THEN [threw |-> FALSE, subs |-> subs]
    ELSE IF Len(c) > inst[i] THEN [threw |-> TRUE, subs |-> subs]
    ELSE IF s[i][Len(c)] # Undefined THEN [threw |-> FALSE, subs |-> subs]
    ELSE LET r == SubGuardedOnce(i, Parent(c), subs, s, inst) IN
         IF r.threw THEN r
         ELSE [threw |-> FALSE,
               subs |-> SetAdd(r.subs, Callback(i, Len(c)))]

\* Faulty variant: the slot is an ordinary property (this._guarded ||= g),
\* which can be assigned before the level's constructor has run.
InvokeNoBrand(cb, s, inst, g) ==
    IF Raises(type[cb.inst], cb.lvl)
    THEN [threw |-> TRUE, slot |-> s, value |-> Undefined]
    ELSE IF s[cb.inst][cb.lvl] # Undefined
         THEN [threw |-> FALSE, slot |-> s, value |-> s[cb.inst][cb.lvl]]
         ELSE [threw |-> FALSE, slot |-> [s EXCEPT ![cb.inst][cb.lvl] = g],
               value |-> g]

\* this.#guarded ||= g, run by the closure cb: a TypeError when the
\* level's private field is not on the instance yet; otherwise the slot is
\* assigned only when it is falsy, and the expression's value (the slot's
\* value afterwards) is what the arrow function returns.  The closure of
\* a misbehaving subscriber raises instead.
Invoke(cb, s, inst, g) ==
    IF Raises(type[cb.inst], cb.lvl) \/ cb.lvl > inst[cb.inst]
    THEN [threw |-> TRUE, slot |-> s, value |-> Undefined]
    ELSE IF s[cb.inst][cb.lvl] # Undefined
         THEN [threw |-> FALSE, slot |-> s, value |-> s[cb.inst][cb.lvl]]
         ELSE [threw |-> FALSE, slot |-> [s EXCEPT ![cb.inst][cb.lvl] = g],
               value |-> g]

\* Faulty variant: the subscribers are handed some other object.
DistArgCopy(i, s) == (s[i][0] % MaxObjs) + 1

\* The argument _getGuarded() hands to every subscriber.
DistArg(i, s) == s[i][0]

\* Faulty variant: subs.delete(sub) before sub(guarded).
RECURSIVE DistLoopDeleteFirst(_, _, _, _, _)
DistLoopDeleteFirst(g, subs, s, inst, pos) ==
    IF pos > Len(subs)
    THEN [subs |-> subs, slot |-> s, raised |-> 0, calls |-> << >>]
    ELSE LET r == Invoke(subs[pos], s, inst, g) IN
         IF r.threw
         THEN [subs |-> SetDeleteAt(subs, pos), slot |-> s,
               raised |-> subs[pos].lvl, calls |-> <<subs[pos].lvl>>]
         ELSE LET rest == DistLoopDeleteFirst(g, SetDeleteAt(subs, pos),
                                              r.slot, inst, pos) IN
              [rest EXCEPT !.calls = <<subs[pos].lvl>> \o @]

\* Faulty variant: an index loop over the collection, which steps past the
\* entry that moved into the deleted entry's position.
RECURSIVE DistLoopSkipping(_, _, _, _, _)
DistLoopSkipping(g, subs, s, inst, pos) ==
    IF pos > Len(subs)
    THEN [subs |-> subs, slot |-> s, raised |-> 0, calls |-> << >>]
    ELSE LET r == Invoke(subs[pos], s, inst, g) IN
         IF r.threw
         THEN [subs |-> subs, slot |-> s, raised |-> subs[pos].lvl,
               calls |-> <<subs[pos].lvl>>]
         ELSE LET rest == DistLoopSkipping(g, SetDeleteAt(subs, pos),
                                           r.slot, inst, pos + 1) IN
              [rest EXCEPT !.calls = <<subs[pos].lvl>> \o @]

\* Faulty variant: the loop without subs.delete(sub).
RECURSIVE DistLoopNoDelete(_, _, _, _, _)
DistLoopNoDelete(g, subs, s, inst, pos) ==
    IF pos > Len(subs)
    THEN [subs |-> subs, slot |-> s, raised |-> 0, calls |-> << >>]
    ELSE LET r == Invoke(subs[pos], s, inst, g) IN
         IF r.threw
         THEN [subs |-> subs, slot |-> s, raised |-> subs[pos].lvl,
               calls |-> <<subs[pos].lvl>>]
         ELSE LET rest == DistLoopNoDelete(g, subs, r.slot, inst, pos + 1) IN
              [rest EXCEPT !.calls = <<subs[pos].lvl>> \o @]

\* for (const sub of subs) { sub(guarded); subs.delete(sub); } inside try:
\* the Set iterator is at position pos; deleting the visited entry moves
\* the next entry to the same position; a throw leaves the loop.
RECURSIVE DistLoop(_, _, _, _, _)
DistLoop(g, subs, s, inst, pos) ==
    IF pos > Len(subs)
    THEN [subs |-> subs, slot |-> s, raised |-> 0, calls |-> << >>]
    ELSE LET r == Invoke(subs[pos], s, inst, g) IN
         IF r.threw
         THEN [subs |-> subs, slot |-> s, raised |-> subs[pos].lvl,
               calls |-> <<subs[pos].lvl>>]
         ELSE LET rest == DistLoop(g, SetDeleteAt(subs, pos), r.slot, inst,
                                   pos) IN
              [rest EXCEPT !.calls = <<subs[pos].lvl>> \o @]

\* try { ... } catch (_) { }: whether what the block threw leaves the method.
TryCatch(threw) == FALSE

\* _getGuarded(): the loop inside try, and the empty catch.
Distribute(i) ==
    LET r == DistLoop(DistArg(i, slot), guardedSubs[i], slot, installed, 1) IN
    [subs |-> r.subs, slot |-> r.slot, raised |-> r.raised,
     calls |-> r.calls,
     outcome |-> IF TryCatch(r.raised # 0) THEN "TypeError" ELSE "ok"]

\* hist of an instance after a _getGuarded() call with result d.
Served(h, d) ==
    [raised |-> d.raised,
     served |-> h.served \cup (Range(d.calls) \ {d.raised})]

\* The levels of the callbacks in a pending collection, in order.
LevelsIn(subs) == [n \in 1..Len(subs) |-> subs[n].lvl]

\* Faulty variants: a truthiness test, and the comparison inverted.
AuthOKTruthy(auth, own) == auth # Undefined
AuthOKInverted(auth, own) == auth # own

\* guarded !== this.#guarded is false.
AuthOK(auth, own) == auth = own

\* guardedMethod(guarded), declared by the class at level L.
GuardedMethod(i, L, auth) ==
    IF AuthOK(auth, slot[i][L]) THEN "ok" ELSE "Unauthorized"

\* Faulty variant: an ordinary property read, which never throws on an
\* instance.
HasFieldAny(o, T) == o \in Inst /\ pc[o] # "none"

\* other.#guarded inside a method of class T does not throw: other carries
\* T's private field.
HasField(o, T) ==
    /\ o \in Inst
    /\ pc[o] # "none"
    /\ Len(T) <= installed[o]
    /\ Ancestor(type[o], Len(T)) = T

\* Faulty variant: a map created by the constructor, which holds the entry
\* of the instance under construction only.
MapSetFresh(m, key, v) == (key :> v)

\* guardedMap.set(key, v)
MapSet(m, key, v) == (key :> v) @@ m

\* guardedMap.get(key)
MapGet(m, key) == IF key \in DOMAIN m THEN m[key] ELSE Undefined

\* Faulty variant: guardedMap.get(this).
GetGuardedForSelf(i, auth, other) ==
    IF AuthOK(auth, slot[i][0])
    THEN [outcome |-> "ok", value |-> MapGet(guardedMap, i)]
    ELSE [outcome |-> "Unauthorized", value |-> Undefined]

\* _getGuardedFor(auth, otherInstance)
GetGuardedFor(i, auth, other) ==
    IF AuthOK(auth, slot[i][0])
    THEN [outcome |-> "ok", value |-> MapGet(guardedMap, other)]
    ELSE [outcome |-> "Unauthorized", value |-> Undefined]

\* Faulty variant: otherInstance instanceof this.constructor, which also
\* admits an instance of a sub-class.
InstanceOfCaller(i, other) ==
    /\ other \in Inst
    /\ pc[other] # "none"
    /\ Extends(type[other], type[i])

\* Object.getPrototypeOf(this) === Object.getPrototypeOf(otherInstance):
\* both were constructed as the same class (an object that is no instance
\* of the hierarchy has another prototype).
SamePrototype(i, other) ==
    /\ other \in Inst
    /\ pc[other] # "none"
    /\ type[i] = type[other]

\* Faulty variant: the prototype comparison placed before the
\* authorization check.
GetGuardedForStrictTypeFirst(i, auth, other) ==
    IF ~SamePrototype(i, other)
    THEN [outcome |-> "TypeError", value |-> Undefined]
    ELSE IF ~AuthOK(auth, slot[i][0])
         THEN [outcome |-> "Unauthorized", value |-> Undefined]
         ELSE [outcome |-> "ok", value |-> MapGet(guardedMap, other)]

\* _getGuardedFor(auth, otherInstance) of the stricter variant.
GetGuardedForStrict(i, auth, other) ==
    IF ~AuthOK(auth, slot[i][0])
    THEN [outcome |-> "Unauthorized", value |-> Undefined]
    ELSE IF ~SamePrototype(i, other)
         THEN [outcome |-> "TypeError", value |-> Undefined]
         ELSE [outcome |-> "ok", value |-> MapGet(guardedMap, other)]

\* Faulty variant: guardedMap.get(otherInstance), without .someProp.
SomePropOfContainer(g) == g

\* guardedMap.get(otherInstance)?.someProp
SomePropOf(g) == IF g = Undefined THEN Undefined ELSE contents[g].someProp

\* _getSomePropFor(auth, otherInstance)
GetSomePropFor(i, auth, other) ==
    IF AuthOK(auth, slot[i][0])
    THEN [outcome |-> "ok", value |-> SomePropOf(MapGet(guardedMap, other))]
    ELSE [outcome |-> "Unauthorized", value |-> Undefined]

(***************************************************************************)
(* Initial state: nothing constructed; the outside code has its objects.   *)
(***************************************************************************)
Init ==
    /\ type = [i \in Inst |-> Root]
    /\ pc = [i \in Inst |-> "none"]
    /\ installed = [i \in Inst |-> 0]
    /\ slot = [i \in Inst |-> [k \in Level |-> Undefined]]
    /\ guardedSubs = [i \in Inst |-> << >>]
    /\ guardedMap = [i \in {} |-> Undefined]
    /\ contents = [o \in Obj |-> [lv |-> {}, someProp |-> Undefined]]
    /\ nextObj = MaxExtObjs + 1
    /\ extKnown = {}
    /\ hist = [i \in Inst |-> [raised |-> 0, served |-> {}]]
    /\ ret = R("idle", 0, Undefined, 0, Root, "ok", Undefined)

(***************************************************************************)
(* Construction.  new C() runs to completion before anything else runs;    *)
(* it is shown level by level.                                             *)
(***************************************************************************)

\* new c(): every constructor calls super() first, so the root constructor
\* body runs first: it creates the GuardedState, records it in guardedMap
\* and invites the subscribers through the most-derived _subGuarded.
\* Returning to the level-1 constructor installs that level's fields.
\* Instances are numbered in the order they are constructed.
New(i, c) ==
    /\ Idle
    /\ pc[i] = "none"
    /\ \A j \in Inst : j < i => pc[j] # "none"
    /\ LET g == NewGuarded(nextObj) IN
       /\ slot' = [slot EXCEPT ![i][0] = g]
       /\ guardedMap' = MapSet(guardedMap, i, g)
       /\ ret' = R("new", i, Undefined, 0, c, "ok", g)
    /\ nextObj' = nextObj + 1
    /\ type' = [type EXCEPT ![i] = c]
    /\ guardedSubs' = [guardedSubs EXCEPT ![i] = SubGuarded(i, c, << >>)]
    /\ IF c = Root
       THEN /\ pc' = [pc EXCEPT ![i] = "done"]
            /\ installed' = installed
       ELSE /\ pc' = [pc EXCEPT ![i] = "super"]
            /\ installed' = [installed EXCEPT ![i] = 1]
    /\ UNCHANGED <<contents, extKnown, hist>>

\* new c() in the once-only variant: the root constructor creates the
\* GuardedState and calls this._subGuarded(this.#guardedSubs) while no
\* derived level's fields are installed; an error raised there leaves the
\* root constructor, the derived constructors' super() calls and new.
NewOnce(i, c) ==
    /\ Idle
    /\ pc[i] = "none"
    /\ \A j \in Inst : j < i => pc[j] # "none"
    /\ LET g == NewGuarded(nextObj)
           r == SubGuardedOnce(i, c, << >>, [slot EXCEPT ![i][0] = g],
                               installed) IN
       /\ slot' = [slot EXCEPT ![i][0] = g]
       /\ guardedSubs' = [guardedSubs EXCEPT ![i] = r.subs]
       /\ IF r.threw
          THEN /\ pc' = [pc EXCEPT ![i] = "failed"]
               /\ installed' = installed
               /\ ret' = R("new", i, Undefined, 0, c, "TypeError", Undefined)
          ELSE /\ pc' = [pc EXCEPT ![i] = IF c = Root THEN "done" ELSE "super"]
               /\ installed' = IF c = Root THEN installed
                                ELSE [installed EXCEPT ![i] = 1]
               /\ ret' = R("new", i, Undefined, 0, c, "ok", g)
    /\ nextObj' = nextObj + 1
    /\ type' = [type EXCEPT ![i] = c]
    /\ UNCHANGED <<guardedMap, contents, extKnown, hist>>

\* const subs = new Set(); instance._subGuarded(subs); once-only variant
ExtSubGuardedOnce(i) ==
    /\ Idle
    /\ Done(i)
    /\ LET r == SubGuardedOnce(i, type[i], << >>, slot, installed) IN
       ret' = R("_subGuarded", i, Undefined, 0, Root,
                IF r.threw THEN "TypeError" ELSE "ok", Len(r.subs))
    /\ UNCHANGED progState

\* this._getGuarded() in the constructor of level installed[i].
CtorGetGuarded(i) ==
    /\ pc[i] = "super"
    /\ ~Omits(type[i], installed[i])
    /\ LET d == Distribute(i) IN
       /\ slot' = d.slot
       /\ guardedSubs' = [guardedSubs EXCEPT ![i] = d.subs]
       /\ ret' = [R("_getGuarded", i, Undefined, 0, Root, d.outcome,
                     d.raised)
                   EXCEPT !.pre = LevelsIn(guardedSubs[i]),
                          !.calls = d.calls,
                          !.prev = hist[i]]
       /\ hist' = [hist EXCEPT ![i] = Served(@, d)]
       /\ pc' = [pc EXCEPT ![i] = IF d.outcome = "ok" THEN "dist"
                                                         ELSE "failed"]
    /\ UNCHANGED <<type, installed, guardedMap, contents, nextObj, extKnown>>

\* The constructor of level installed[i] goes on without calling
\* this._getGuarded().
CtorOmit(i) ==
    /\ pc[i] = "super"
    /\ Omits(type[i], installed[i])
    /\ pc' = [pc EXCEPT ![i] = "dist"]
    /\ ret' = R("omit", i, Undefined, 0, Root, "ok", Undefined)
    /\ UNCHANGED <<type, installed, slot, guardedSubs, guardedMap, contents,
                   nextObj, extKnown, hist>>

\* The rest of the constructor of level k: this.#guarded.propK = 'K' (a
\* TypeError out of the constructor when the slot is undefined), then return
\* to the next derived constructor, or to the caller of new.
CtorBody(i) ==
    /\ pc[i] = "dist"
    /\ LET k == installed[i]
           g == slot[i][k] IN
       IF g = Undefined /\ ~Raises(type[i], k) /\ ~Omits(type[i], k)
       THEN /\ pc' = [pc EXCEPT ![i] = "failed"]
            /\ ret' = R("ctor", i, Undefined, 0, Root, "TypeError", Undefined)
            /\ UNCHANGED <<installed, contents>>
       ELSE /\ contents' = IF Raises(type[i], k) \/ Omits(type[i], k)
                           THEN contents
                           ELSE [contents EXCEPT
                                   ![g].lv = @ \cup {Ancestor(type[i], k)}]
            /\ ret' = R("ctor", i, Undefined, 0, Root, "ok", Undefined)
            /\ IF k = Len(type[i])
               THEN /\ pc' = [pc EXCEPT ![i] = "done"]
                    /\ installed' = installed
               ELSE /\ pc' = [pc EXCEPT ![i] = "super"]
                    /\ installed' = [installed EXCEPT ![i] = k + 1]
    /\ UNCHANGED <<type, slot, guardedSubs, guardedMap, nextObj, extKnown,
                   hist>>

(***************************************************************************)
(* The public surface, called by code outside the hierarchy.               *)
(***************************************************************************)

\* instance._getGuarded()
ExtGetGuarded(i) ==
    /\ Idle
    /\ Done(i)
    /\ LET d == Distribute(i) IN
       /\ slot' = d.slot
       /\ guardedSubs' = [guardedSubs EXCEPT ![i] = d.subs]
       /\ ret' = [R("_getGuarded", i, Undefined, 0, Root, d.outcome,
                     d.raised)
                   EXCEPT !.pre = LevelsIn(guardedSubs[i]),
                          !.calls = d.calls,
                          !.prev = hist[i]]
       /\ hist' = [hist EXCEPT ![i] = Served(@, d)]
    /\ UNCHANGED <<type, pc, installed, guardedMap, contents, nextObj,
                   extKnown>>

\* const subs = new Set(); instance._subGuarded(subs);
ExtSubGuarded(i) ==
    /\ Idle
    /\ Done(i)
    /\ ret' = R("_subGuarded", i, Undefined, 0, Root, "ok",
                Len(SubGuarded(i, type[i], << >>)))
    /\ UNCHANGED progState

\* sub(x) for a closure collected by instance._subGuarded(subs).
ExtInvoke(i, k, x) ==
    /\ Idle
    /\ Done(i)
    /\ Callback(i, k) \in Range(SubGuarded(i, type[i], << >>))
    /\ x \in ExtArgs
    /\ LET r == Invoke(Callback(i, k), slot, installed, x) IN
       /\ slot' = r.slot
       /\ extKnown' = Learn(r.value)
       /\ ret' = R("sub", i, x, k, Root,
                   IF ~r.threw THEN "ok"
                   ELSE IF Raises(type[i], k) THEN "Error" ELSE "TypeError",
                   r.value)
    /\ UNCHANGED <<type, pc, installed, guardedSubs, guardedMap, contents,
                   nextObj, hist>>

\* instance.guardedMethod(auth)
ExtGuardedMethod(i, L, auth) ==
    /\ Idle
    /\ Done(i)
    /\ L \in LevelsOf(i)
    /\ auth \in ExtArgs
    /\ ret' = R("guardedMethod", i, auth, 0, Root,
                GuardedMethod(i, L, auth), Undefined)
    /\ UNCHANGED progState

\* instance._getGuardedFor(auth, other)
ExtGetGuardedFor(i, auth, other) ==
    /\ Idle
    /\ Done(i)
    /\ auth \in ExtArgs
    /\ Done(other) \/ other = NotAnInstance
    /\ LET r == GetGuardedFor(i, auth, other) IN
       /\ extKnown' = Learn(r.value)
       /\ ret' = R("_getGuardedFor", i, auth, other, Root, r.outcome, r.value)
    /\ UNCHANGED <<type, pc, installed, slot, guardedSubs, guardedMap,
                   contents, nextObj, hist>>

\* instance._getSomePropFor(auth, other)
ExtGetSomePropFor(i, auth, other) ==
    /\ Idle
    /\ Done(i)
    /\ auth \in ExtArgs
    /\ Done(other) \/ other = NotAnInstance
    /\ LET r == GetSomePropFor(i, auth, other) IN
       /\ extKnown' = Learn(r.value)
       /\ ret' = R("_getSomePropFor", i, auth, other, Root, r.outcome,
                   r.value)
    /\ UNCHANGED <<type, pc, installed, slot, guardedSubs, guardedMap,
                   contents, nextObj, hist>>

(***************************************************************************)
(* Methods of the classes of the hierarchy, which read their own slot.     *)
(***************************************************************************)

\* callGuardedMethod() of level k: this.guardedMethod(this.#guarded)
CallGuardedMethod(i, k, L) ==
    /\ Idle
    /\ Done(i)
    /\ k \in LevelsOf(i) \ {0}
    /\ L \in LevelsOf(i)
    /\ ret' = R("callGuardedMethod", i, slot[i][k], 0, Root,
                GuardedMethod(i, L, slot[i][k]), Undefined)
    /\ UNCHANGED progState

\* callOtherGuardedMethod(other) of class T, run by an instance of T:
\* const otherGuarded = other.#guarded; other.guardedMethod(otherGuarded)
CallOtherGuardedMethod(i, T, other, L) ==
    /\ Idle
    /\ Done(i)
    /\ T \in Class \ {Root}
    /\ Extends(type[i], T)
    /\ Done(other) \/ other = NotAnInstance
    /\ IF HasField(other, T)
       THEN /\ L \in LevelsOf(other)
            /\ ret' = R("callOtherGuardedMethod", other,
                        slot[other][Len(T)], other, T,
                        GuardedMethod(other, L, slot[other][Len(T)]),
                        Undefined)
       ELSE /\ L = 0
            /\ ret' = R("callOtherGuardedMethod", other, Undefined, other, T,
                        "TypeError", Undefined)
    /\ UNCHANGED progState

\* compareWith(other) of level k:
\* this._getGuardedFor(this.#guarded, other)
CompareWith(i, k, other) ==
    /\ Idle
    /\ Done(i)
    /\ k \in LevelsOf(i) \ {0}
    /\ Done(other) \/ other = NotAnInstance
    /\ LET r == GetGuardedFor(i, slot[i][k], other) IN
       ret' = R("compareWith", i, slot[i][k], other, Root, r.outcome, r.value)
    /\ UNCHANGED progState

\* instance._getGuardedFor(auth, other), stricter variant
ExtGetGuardedForStrict(i, auth, other) ==
    /\ Idle
    /\ Done(i)
    /\ auth \in ExtArgs
    /\ Done(other) \/ other = NotAnInstance
    /\ LET r == GetGuardedForStrict(i, auth, other) IN
       /\ extKnown' = Learn(r.value)
       /\ ret' = R("_getGuardedForStrict", i, auth, other, Root, r.outcome,
                   r.value)
    /\ UNCHANGED <<type, pc, installed, slot, guardedSubs, guardedMap,
                   contents, nextObj, hist>>

\* compareWith(other) of level k, on the stricter variant:
\* this._getGuardedFor(this.#guarded, other)
CompareWithStrict(i, k, other) ==
    /\ Idle
    /\ Done(i)
    /\ k \in LevelsOf(i) \ {0}
    /\ Done(other) \/ other = NotAnInstance
    /\ LET r == GetGuardedForStrict(i, slot[i][k], other) IN
       ret' = R("compareWithStrict", i, slot[i][k], other, Root, r.outcome,
                r.value)
    /\ UNCHANGED progState

\* A method of level k reading one property of another instance:
\* this._getSomePropFor(this.#guarded, other)
SomePropOfOther(i, k, other) ==
    /\ Idle
    /\ Done(i)
    /\ k \in LevelsOf(i) \ {0}
    /\ Done(other) \/ other = NotAnInstance
    /\ LET r == GetSomePropFor(i, slot[i][k], other) IN
       ret' = R("somePropOfOther", i, slot[i][k], other, Root, r.outcome,
                r.value)
    /\ UNCHANGED progState

\* The values a property of the GuardedState is given: strings such as
\* 'value1' and 'value2', which are not objects (negative numbers here).
PropVals == {-1, -2}

\* setProtectedProp('someProp', v) of level k: this.#guarded[key] = value
SetProtectedProp(i, k, v) ==
    /\ Idle
    /\ Done(i)
    /\ k \in LevelsOf(i) \ {0}
    /\ v \in PropVals
    /\ IF slot[i][k] = Undefined
       THEN /\ contents' = contents
            /\ ret' = R("setProtectedProp", i, v, k, Root, "TypeError",
                        Undefined)
       ELSE /\ contents' = [contents EXCEPT ![slot[i][k]].someProp = v]
            /\ ret' = R("setProtectedProp", i, v, k, Root, "ok", Undefined)
    /\ UNCHANGED <<type, pc, installed, slot, guardedSubs, guardedMap,
                   nextObj, extKnown, hist>>

\* getProtectedProp('someProp') of level k: return this.#guarded[key]
GetProtectedProp(i, k) ==
    /\ Idle
    /\ Done(i)
    /\ k \in LevelsOf(i) \ {0}
    /\ ret' = IF slot[i][k] = Undefined
              THEN R("getProtectedProp", i, Undefined, k, Root, "TypeError",
                     Undefined)
              ELSE R("getProtectedProp", i, Undefined, k, Root, "ok",
                     contents[slot[i][k]].someProp)
    /\ UNCHANGED progState

\* The caller has taken the result of the last call and carries on.
Resume ==
    /\ ~Constructing
    /\ ret.op # "idle"
    /\ ret' = R("idle", 0, Undefined, 0, Root, "ok", Undefined)
    /\ UNCHANGED progState

\* A call starts only when no call is running (Idle is also the first guard
\* of every operation below).
Next ==
    \/ Resume
    \/ \E i \in Inst : CtorGetGuarded(i)
    \/ \E i \in Inst : CtorBody(i)
    \/ Idle /\ \E i \in Inst, c \in AnyClass : New(i, c)
    \/ Idle /\ \E i \in Inst : ExtGetGuarded(i)
    \/ Idle /\ \E i \in Inst : ExtSubGuarded(i)
    \/ Idle /\ \E i \in Inst, k \in Level, x \in ExtArgs : ExtInvoke(i, k, x)
    \/ Idle /\ \E i \in Inst, L \in Level, a \in ExtArgs :
                  ExtGuardedMethod(i, L, a)
    \/ Idle /\ \E i \in Inst, a \in ExtArgs, o \in Inst \cup {NotAnInstance} :
                  ExtGetGuardedFor(i, a, o)
    \/ Idle /\ \E i \in Inst, a \in ExtArgs, o \in Inst \cup {NotAnInstance} :
                  ExtGetSomePropFor(i, a, o)
    \/ Idle /\ \E i \in Inst, k \in Level, L \in Level :
                  CallGuardedMethod(i, k, L)
    \/ Idle /\ \E i \in Inst, T \in Class, o \in Inst \cup {NotAnInstance},
                    L \in Level : CallOtherGuardedMethod(i, T, o, L)
    \/ Idle /\ \E i \in Inst, k \in Level, o \in Inst \cup {NotAnInstance} :
                  CompareWith(i, k, o)

Spec == Init /\ [][Next]_vars

\* The program exercised through the methods that write and read the
\* properties kept in the GuardedState.
NextProps ==
    \/ Resume
    \/ \E i \in Inst : CtorGetGuarded(i)
    \/ \E i \in Inst : CtorBody(i)
    \/ Idle /\ \E i \in Inst, c \in Class : New(i, c)
    \/ Idle /\ \E i \in Inst, k \in Level, v \in PropVals :
                  SetProtectedProp(i, k, v)
    \/ Idle /\ \E i \in Inst, k \in Level : GetProtectedProp(i, k)
    \/ Idle /\ \E i \in Inst, a \in ExtArgs, o \in Inst \cup {NotAnInstance} :
                  ExtGetSomePropFor(i, a, o)
    \/ Idle /\ \E i \in Inst, k \in Level, o \in Inst \cup {NotAnInstance} :
                  SomePropOfOther(i, k, o)

SpecProps == Init /\ [][NextProps]_vars

\* The program with the once-only variant of _subGuarded.
NextOnce ==
    \/ Resume
    \/ Idle /\ \E i \in Inst, c \in Class : NewOnce(i, c)
    \/ Idle /\ \E i \in Inst : ExtSubGuardedOnce(i)
    \/ Idle /\ \E i \in Inst : ExtGetGuarded(i)
    \/ Idle /\ \E i \in Inst, L \in Level, a \in ExtArgs :
                  ExtGuardedMethod(i, L, a)

SpecOnce == Init /\ [][NextOnce]_vars

\* Construction and _getGuarded() alone, over all the classes above.
NextCtor ==
    \/ Resume
    \/ \E i \in Inst : CtorGetGuarded(i)
    \/ \E i \in Inst : CtorOmit(i)
    \/ \E i \in Inst : CtorBody(i)
    \/ Idle /\ \E i \in Inst, c \in AnyClass \cup LazyChain : New(i, c)
    \/ Idle /\ \E i \in Inst : ExtGetGuarded(i)

SpecCtor == Init /\ [][NextCtor]_vars

\* The program with the stricter variant of _getGuardedFor.
NextStrict ==
    \/ Resume
    \/ \E i \in Inst : CtorGetGuarded(i)
    \/ \E i \in Inst : CtorBody(i)
    \/ Idle /\ \E i \in Inst, c \in Class : New(i, c)
    \/ Idle /\ \E i \in Inst, a \in ExtArgs, o \in Inst \cup {NotAnInstance} :
                  ExtGetGuardedForStrict(i, a, o)
    \/ Idle /\ \E i \in Inst, k \in Level, o \in Inst \cup {NotAnInstance} :
                  CompareWithStrict(i, k, o)

SpecStrict == Init /\ [][NextStrict]_vars

(***************************************************************************)
(* Properties.                                                             *)
(***************************************************************************)

\* The levels that have a slot on instance i: the root and every derived
\* level down to the instance's class.
\* r records a call that reached a pseudo-protected method of instance
\* r.inst with authorization value r.arg.
PseudoProtectedCall(r) ==
    \/ r.op \in {"guardedMethod", "_getGuardedFor", "_getSomePropFor",
                 "callGuardedMethod", "compareWith"}
    \/ r.op = "callOtherGuardedMethod" /\ r.outcome # "TypeError"

\* C1: after construction completes, every level's slot of the instance
\* holds the very object the root created as its GuardedState; no level
\* holds a different object (or none).
C1_AllLevelsHoldRootState ==
    \A i \in Inst :
        pc[i] = "done" =>
            /\ slot[i][0] \in Obj
            /\ \A k \in LevelsOf(i) : slot[i][k] = slot[i][0]

\* C1 witness: an instance with at least two derived levels has just
\* finished construction.
C1_Witness ==
    /\ ret.op = "ctor"
    /\ ret.outcome = "ok"
    /\ pc[ret.inst] = "done"
    /\ Len(type[ret.inst]) >= 2

\* C2: write-once law: a step that invokes a subscriber callback (collected
\* by the outside through _subGuarded) with any argument leaves every
\* populated slot of every instance, and the contents of every object,
\* unchanged.
C2_WriteOnce ==
    [][ret'.op = "sub" =>
          /\ \A i \in Inst, k \in Level :
                 slot[i][k] # Undefined => slot'[i][k] = slot[i][k]
          /\ contents' = contents]_vars

\* C2 witness: a callback of a constructed instance was invoked with a
\* replacement object different from the slot's GuardedState.
C2_Witness ==
    /\ ret.op = "sub"
    /\ ret.outcome = "ok"
    /\ ret.arg \in Obj
    /\ ret.arg # slot[ret.inst][ret.other]
    /\ slot[ret.inst][ret.other] = slot[ret.inst][0]

\* C3: no call on the public surface ever returns an instance's
\* GuardedState to code outside the hierarchy (which starts without any
\* GuardedState reference).
C3_InvisibleOutside ==
    \A i \in Inst : pc[i] = "done" => slot[i][0] \notin extKnown

\* C4: a pseudo-protected method called with an authorization value other
\* than the callee's own GuardedState fails with Unauthorized, returns
\* nothing (its body does not run) and changes no state.
C4_MismatchIsUnauthorized ==
    [][(PseudoProtectedCall(ret') /\ ret'.arg # slot[ret'.inst][0]) =>
          /\ ret'.outcome = "Unauthorized"
          /\ ret'.value = Undefined
          /\ UNCHANGED progState]_vars

\* C4 witness: guardedMethod was called with an object the caller made
\* itself and threw Unauthorized.
C4_Witness ==
    /\ ret.op = "guardedMethod"
    /\ ret.arg \in ExtObj
    /\ ret.outcome = "Unauthorized"

\* C5: a pseudo-protected method called with the instance's own
\* GuardedState passes its check; in particular a call made by a method of
\* any level of the instance, passing what that level's slot holds, passes.
C5_OwnStateIsAuthorized ==
    /\ (PseudoProtectedCall(ret) /\ ret.arg = slot[ret.inst][0]) =>
           ret.outcome = "ok"
    /\ ret.op \in {"callGuardedMethod", "compareWith"} => ret.outcome = "ok"

\* C5 witness: callGuardedMethod of an instance with two derived levels
\* succeeded.
C5_Witness ==
    /\ ret.op = "callGuardedMethod"
    /\ ret.outcome = "ok"
    /\ Len(type[ret.inst]) >= 2
    /\ ret.arg = slot[ret.inst][0]

\* The level properties the constructors of class c write (the root
\* constructor writes none).
LevelProps(c) ==
    {Ancestor(c, k) : k \in {n \in 1..Len(c) : ~Raises(c, n) /\ ~Omits(c, n)}}

\* C6: two instances never share a GuardedState object, and a constructed
\* instance's state holds exactly the properties written by the
\* constructors of its own class chain (B1: levelA, levelB1, not levelB2).
C6_PerInstanceState ==
    /\ \A i, j \in Inst :
           (i # j /\ pc[i] # "none" /\ pc[j] # "none") =>
               slot[i][0] # slot[j][0]
    /\ \A i \in Inst :
           pc[i] = "done" => contents[slot[i][0]].lv = LevelProps(type[i])

\* C6 witness: two constructed instances of sibling classes.
C6_Witness ==
    \E i, j \in Inst :
        /\ pc[i] = "done" /\ pc[j] = "done"
        /\ type[i] = <<1, 1>> /\ type[j] = <<1, 2>>
        /\ <<1, 1>> \in contents[slot[i][0]].lv
        /\ <<1, 2>> \notin contents[slot[i][0]].lv

\* C7: a method of class T that reads other.#guarded and passes it to
\* other.guardedMethod succeeds when other was constructed as T or as a
\* sub-class of T, and otherwise ends in a TypeError.
C7_CrossTypeCall ==
    ret.op = "callOtherGuardedMethod" =>
        IF ret.other \in Inst /\ Extends(type[ret.other], ret.cls)
        THEN ret.outcome = "ok"
        ELSE ret.outcome = "TypeError"

\* C7 witness: a method of a derived class T was called on a target whose
\* class is a strict ancestor of T, and threw TypeError.
C7_Witness ==
    /\ ret.op = "callOtherGuardedMethod"
    /\ ret.other \in Inst
    /\ Extends(ret.cls, type[ret.other])
    /\ ret.cls # type[ret.other]
    /\ type[ret.other] # Root
    /\ ret.outcome = "TypeError"

\* C8: _getGuardedFor(auth, other) with auth the callee's own GuardedState
\* returns the object every level of other holds, whatever the two classes,
\* and undefined when other was not constructed through the mechanism.
C8_GetGuardedFor ==
    (ret.op \in {"_getGuardedFor", "compareWith"}
        /\ ret.arg = slot[ret.inst][0]) =>
        /\ ret.outcome = "ok"
        /\ IF ret.other \in Inst
           THEN /\ ret.value \in Obj
                /\ \A k \in LevelsOf(ret.other) :
                       slot[ret.other][k] = ret.value
           ELSE ret.value = Undefined

\* C8 witness: an instance obtained the GuardedState of an instance of a
\* different class.
C8_Witness ==
    /\ ret.op = "compareWith"
    /\ ret.other \in Inst
    /\ ret.other # ret.inst
    /\ type[ret.other] # type[ret.inst]
    /\ ret.value = slot[ret.other][0]

\* C9: once a derived constructor has called _getGuarded() after super(),
\* its own slot holds the root's GuardedState (in a hierarchy whose levels
\* all subscribe with the standard closure).
C9_SlotReadyAfterDistribute ==
    \A i \in Inst :
        (pc[i] = "dist" /\ Standard(type[i])) =>
            /\ slot[i][0] \in Obj
            /\ slot[i][installed[i]] = slot[i][0]

\* C9 witness: the constructor of a level that is not the most derived one
\* has just called _getGuarded().
C9_Witness ==
    \E i \in Inst :
        /\ pc[i] = "dist"
        /\ installed[i] >= 1
        /\ installed[i] < Len(type[i])

\* C10: _getGuarded() returns normally even when a callback raised, and the
\* callback that raised is still pending when it returns.
C10_DistributeSwallows ==
    ret.op = "_getGuarded" =>
        /\ ret.outcome = "ok"
        /\ ret.value # 0 =>
               Callback(ret.inst, ret.value) \in Range(guardedSubs[ret.inst])

\* C10 witness: a callback raised during _getGuarded().
C10_Witness ==
    /\ ret.op = "_getGuarded"
    /\ ret.value # 0

\* C12: every level of an instance reads and writes the same state: a
\* value written through one level's slot is the value seen through every
\* level's slot, a read through one level's slot returns that value, and
\* after construction the state seen through every level's slot holds
\* exactly the properties the constructors of the class chain wrote.
C12_SharedAcrossLevels ==
    /\ (ret.op = "setProtectedProp") =>
           /\ ret.outcome = "ok"
           /\ \A k \in LevelsOf(ret.inst) :
                  contents[slot[ret.inst][k]].someProp = ret.arg
    /\ (ret.op = "getProtectedProp") =>
           /\ ret.outcome = "ok"
           /\ \A k \in LevelsOf(ret.inst) :
                  contents[slot[ret.inst][k]].someProp = ret.value
    /\ \A i \in Inst :
           pc[i] = "done" =>
               \A k \in LevelsOf(i) :
                   /\ slot[i][k] \in Obj
                   /\ contents[slot[i][k]].lv = LevelProps(type[i])

\* C12 witness: a value written through one level's slot of a Root, Mid,
\* Leaf instance has just been read through another level's slot.
C12_Witness ==
    /\ ret.op = "getProtectedProp"
    /\ ret.value \in PropVals
    /\ type[ret.inst] = <<1, 1>>
    /\ contents[slot[ret.inst][0]].lv = {<<1>>, <<1, 1>>}

\* C13: in the stricter variant, _getGuardedFor with valid authorization
\* returns the target's GuardedState when caller and target were
\* constructed as the same class, and fails with a TypeError (not with
\* Unauthorized) when they were not, also when one class extends the other.
C13_StrictSameType ==
    (/\ ret.op \in {"_getGuardedForStrict", "compareWithStrict"}
     /\ ret.arg = slot[ret.inst][0]) =>
        IF ret.other \in Inst /\ type[ret.other] = type[ret.inst]
        THEN /\ ret.outcome = "ok"
             /\ ret.value = slot[ret.other][0]
             /\ ret.value \in Obj
        ELSE /\ ret.outcome = "TypeError"
             /\ ret.value = Undefined

\* C13 witness: an instance of a class asked, with valid authorization,
\* for the state of an instance of a sub-class of its class.
C13_Witness ==
    /\ ret.op = "compareWithStrict"
    /\ ret.arg = slot[ret.inst][0]
    /\ ret.other \in Inst
    /\ type[ret.other] # type[ret.inst]
    /\ Extends(type[ret.other], type[ret.inst])
    /\ ret.outcome = "TypeError"

\* C14: _getSomePropFor(auth, other) fails with Unauthorized unless auth
\* is the caller's own GuardedState, and otherwise returns the current
\* value of the property someProp of other's GuardedState (undefined when
\* the property is unset or other has no GuardedState), never a
\* GuardedState object.
C14_SomePropFor ==
    ret.op \in {"_getSomePropFor", "somePropOfOther"} =>
        IF ret.arg = slot[ret.inst][0]
        THEN /\ ret.outcome = "ok"
             /\ ret.value = IF ret.other \in Inst
                            THEN contents[slot[ret.other][0]].someProp
                            ELSE Undefined
             /\ ret.value \notin Obj
        ELSE /\ ret.outcome = "Unauthorized"
             /\ ret.value = Undefined

\* C14 witness: with valid authorization, the value another instance's
\* someProp was set to has been returned.
C14_Witness ==
    /\ ret.op = "somePropOfOther"
    /\ ret.outcome = "ok"
    /\ ret.other \in Inst
    /\ ret.other # ret.inst
    /\ ret.value \in PropVals

\* C15: the callback that raised in one _getGuarded() call is invoked
\* again by the next _getGuarded() call on the instance; a callback that
\* completed is no longer pending and no later _getGuarded() call invokes
\* it; a callback leaves the pending collection only by completing.
C15_RetryAndRetire ==
    /\ ret.op = "_getGuarded" =>
           /\ ret.prev.raised # 0 => ret.prev.raised \in Range(ret.calls)
           /\ Range(ret.calls) \cap ret.prev.served = {}
           /\ Range(ret.calls) \subseteq Range(ret.pre)
    /\ \A i \in Inst :
           pc[i] # "none" =>
               /\ Range(LevelsIn(guardedSubs[i])) \cap hist[i].served = {}
               /\ Range(LevelsIn(guardedSubs[i])) \cup hist[i].served
                      = 1..Len(type[i])

\* C15 witness: a _getGuarded() call has invoked again, this time with
\* success, the callback that raised in the call before, and callbacks
\* that had completed before were not invoked.
C15_Witness ==
    /\ ret.op = "_getGuarded"
    /\ ret.prev.raised # 0
    /\ ret.prev.served # {}
    /\ ret.prev.raised \in Range(ret.calls)
    /\ ret.value # ret.prev.raised

\* C16: one _getGuarded() call invokes callbacks in the order of the
\* pending collection, starting at its first entry, each at most once;
\* when none raises, it invokes every callback that was pending when it
\* was called.
C16_InOrderOnce ==
    ret.op = "_getGuarded" =>
        /\ Len(ret.calls) <= Len(ret.pre)
        /\ ret.calls = SubSeq(ret.pre, 1, Len(ret.calls))
        /\ \A m, n \in 1..Len(ret.calls) :
               m # n => ret.calls[m] # ret.calls[n]
        /\ ret.value = 0 => ret.calls = ret.pre

\* C16 witness: a _getGuarded() call found two callbacks pending, none
\* raised, and both were retired during the iteration.
C16_Witness ==
    /\ ret.op = "_getGuarded"
    /\ ret.value = 0
    /\ Len(ret.pre) >= 2
    /\ ret.calls = ret.pre
    /\ guardedSubs[ret.inst] = << >>

\* C17: when the root constructor has invited the subscribers, the pending
\* collection holds one callback per derived level of the class, from the
\* level next to the root to the most derived one; none for the root class.
C17_OnePerLevelInOrder ==
    ret.op = "new" =>
        /\ ret.cls = type[ret.inst]
        /\ guardedSubs[ret.inst] =
               [k \in 1..Len(ret.cls) |-> Callback(ret.inst, k)]

\* C17 witness: the root constructor of an instance of a class two levels
\* below the root has just invited the subscribers.
C17_Witness ==
    /\ ret.op = "new"
    /\ Len(ret.cls) >= 2
    /\ Len(guardedSubs[ret.inst]) = Len(ret.cls)

\* C18: once an instance of a class whose levels all subscribe and all
\* call _getGuarded() after super() is constructed, its pending collection
\* is empty, and a further _getGuarded() call on it changes nothing.
C18_EmptyAfterConstruction ==
    /\ [](\A i \in Inst :
             (pc[i] = "done" /\ Regular(type[i])) => guardedSubs[i] = << >>)
    /\ [][(/\ ret'.op = "_getGuarded"
           /\ pc[ret'.inst] = "done"
           /\ Regular(type[ret'.inst])) =>
              /\ UNCHANGED <<type, pc, installed, slot, guardedSubs,
                             guardedMap, contents, nextObj, extKnown>>
              /\ ret'.calls = << >>]_vars

\* C18 witness: _getGuarded() has been called on a constructed instance
\* of such a class with two derived levels.
C18_Witness ==
    /\ ret.op = "_getGuarded"
    /\ pc[ret.inst] = "done"
    /\ Regular(type[ret.inst])
    /\ Len(type[ret.inst]) >= 2

\* C19: a _getGuarded() call on instance i adds no entry to the pending
\* collection, leaves the root's slot, the contents of every object and
\* every populated slot as they were, fills only unset slots (with the
\* root's GuardedState) and removes only callbacks that completed.
C19_DistributeFrame ==
    [][ret'.op = "_getGuarded" =>
          LET i == ret'.inst IN
          /\ UNCHANGED <<type, installed, guardedMap, contents, nextObj,
                         extKnown>>
          /\ \A j \in Inst \ {i} :
                 slot'[j] = slot[j] /\ guardedSubs'[j] = guardedSubs[j]
          /\ Range(guardedSubs'[i]) \subseteq Range(guardedSubs[i])
          /\ slot'[i][0] = slot[i][0]
          /\ \A k \in Level :
                 /\ slot[i][k] # Undefined => slot'[i][k] = slot[i][k]
                 /\ slot'[i][k] # slot[i][k] => slot'[i][k] = slot[i][0]
          /\ \A cb \in Range(guardedSubs[i]) \ Range(guardedSubs'[i]) :
                 /\ cb.lvl \in Range(ret'.calls)
                 /\ cb.lvl # ret'.value
                 /\ slot'[i][cb.lvl] # Undefined]_vars

\* C19 witness: a _getGuarded() call has filled a slot and removed the
\* callback, and another callback raised and is still pending.
C19_Witness ==
    /\ ret.op = "_getGuarded"
    /\ Len(ret.calls) >= 2
    /\ ret.value = ret.calls[Len(ret.calls)]
    /\ slot[ret.inst][ret.calls[1]] = slot[ret.inst][0]
    /\ Callback(ret.inst, ret.calls[1]) \notin Range(guardedSubs[ret.inst])
    /\ Callback(ret.inst, ret.value) \in Range(guardedSubs[ret.inst])

\* C20: a level's slot is never populated before that level's super()
\* has returned; the _getGuarded() call of the constructor of level k of a
\* regular class serves only callbacks of levels up to k, the callback of
\* level k + 1 raises, and it and the deeper ones stay pending in order.
C20_NoSlotBeforeSuperReturns ==
    /\ \A i \in Inst, k \in Level :
           k > installed[i] => slot[i][k] = Undefined
    /\ (ret.op = "_getGuarded" /\ pc[ret.inst] = "dist") =>
           LET i == ret.inst
               k == installed[i]
               n == Len(type[i]) IN
           /\ Range(ret.calls) \ {ret.value} \subseteq 1..k
           /\ Regular(type[i]) =>
                  /\ ret.value = IF k < n THEN k + 1 ELSE 0
                  /\ LevelsIn(guardedSubs[i]) = [m \in 1..(n - k) |-> k + m]

\* C20 witness: the constructor of a level that is not the most derived
\* one has called _getGuarded(), and the next level's callback raised.
C20_Witness ==
    /\ ret.op = "_getGuarded"
    /\ pc[ret.inst] = "dist"
    /\ Regular(type[ret.inst])
    /\ installed[ret.inst] < Len(type[ret.inst])
    /\ ret.value = installed[ret.inst] + 1
    /\ slot[ret.inst][installed[ret.inst]] # Undefined

\* C21: when the constructor of a level that is not the most derived one
\* leaves out its _getGuarded() call, the _getGuarded() call of the next
\* level's constructor serves that level's callback too; construction does
\* not fail and afterwards every level's slot holds the root's
\* GuardedState.
C21_OmittedCallIsMadeUp ==
    \A i \in Inst :
        (pc[i] # "none" /\ Extends(type[i], Lazy) /\ type[i] # Lazy) =>
            /\ pc[i] # "failed"
            /\ (installed[i] = Len(Lazy) + 1 /\ pc[i] = "dist") =>
                   /\ slot[i][Len(Lazy)] = slot[i][0]
                   /\ Len(Lazy) \in hist[i].served
            /\ pc[i] = "done" =>
                   /\ slot[i][0] \in Obj
                   /\ \A k \in 0..Len(type[i]) : slot[i][k] = slot[i][0]
                   /\ guardedSubs[i] = << >>

\* C21 witness: the constructor below one that left out its _getGuarded()
\* call has just called _getGuarded(), which served both levels' callbacks.
C21_Witness ==
    /\ ret.op = "_getGuarded"
    /\ pc[ret.inst] = "dist"
    /\ Extends(type[ret.inst], Lazy)
    /\ installed[ret.inst] = Len(Lazy) + 1
    /\ ret.prev.served = {}
    /\ {Len(Lazy), Len(Lazy) + 1} \subseteq hist[ret.inst].served
    /\ slot[ret.inst][Len(Lazy)] = slot[ret.inst][0]

\* C22: in the stricter variant, _getGuardedFor called with an
\* authorization value that is not the caller's GuardedState fails with
\* Unauthorized whatever the target is, also when the target's class
\* differs from the caller's; it returns nothing and changes nothing.
C22_AuthBeforeType ==
    [][(/\ ret'.op \in {"_getGuardedForStrict", "compareWithStrict"}
        /\ ret'.arg # slot[ret'.inst][0]) =>
           /\ ret'.outcome = "Unauthorized"
           /\ ret'.value = Undefined
           /\ UNCHANGED progState]_vars

\* C22 witness: a call with a foreign authorization value and a target of
\* another class (or no instance at all) has failed with Unauthorized.
C22_Witness ==
    /\ ret.op = "_getGuardedForStrict"
    /\ ret.arg \in ExtObj
    /\ ret.other \in Inst
    /\ type[ret.other] # type[ret.inst]
    /\ ret.outcome = "Unauthorized"

C24_OnceOnlyConstructs ==
    /\ \A i \in Inst : pc[i] # "failed"
    /\ \A i \in Inst :
           pc[i] = "done" =>
               /\ slot[i][0] \in Obj
               /\ \A k \in 0..Len(type[i]) : slot[i][k] = slot[i][0]
    /\ ret.op = "_subGuarded" => (ret.outcome = "ok" /\ ret.value = 0)

\* C11: when a callback raises during _getGuarded(), every other callback
\* that was pending and can succeed (its level's slot exists and its
\* closure is the standard one) has been invoked and retired when the call
\* returns, and no constructor fails.
C11_RaiserBlocksNobody ==
    /\ (ret.op = "_getGuarded" /\ ret.value # 0) =>
           \A k \in Range(ret.pre) :
               (/\ k # ret.value
                /\ k <= installed[ret.inst]
                /\ ~Raises(type[ret.inst], k)) =>
                   /\ k \in Range(ret.calls)
                   /\ Callback(ret.inst, k) \notin
                          Range(guardedSubs[ret.inst])
    /\ \A i \in Inst : pc[i] # "failed"

====
